---- MODULE Spec2Model ----
(***************************************************************************)
(* Ground-station bridge of the Arc Jr rover                               *)
(* (arduino/rover_communication/rover_communication.ino).                  *)
(*                                                                         *)
(* One Arduino sketch relays newline-terminated commands from the laptop   *)
(* (serial) to the rover (nRF24L01+ radio) and relays telemetry payloads   *)
(* back.  The sketch is single-threaded: setup() runs once, loop() runs    *)
(* for ever.  The program counter pc walks through the statements of       *)
(* setup(), loop() and processSerialCommand(); the laptop and the rover    *)
(* are the environment and act at any time.                                *)
(*                                                                         *)
(* Bytes are numbers 0..255 (char); the model draws them from Byte.        *)
(***************************************************************************)
EXTENDS Integers, Sequences, FiniteSets, TLC

\* ------------------------------------------------------------------ bytes
NUL == 0
NL == 10
Filler == 65
Other == 66

\* what the laptop may put on the wire
Byte == {NUL, NL, Filler, Other}

\* ----------------------------------------------------- program constants
\* const int BUFFER_SIZE = 64;
BUFFER_SIZE == 64

\* const uint64_t pipes[2] = { 0xF0F0F0F0E1LL, 0xF0F0F0F0D2LL };
pipes == <<"F0F0F0F0E1", "F0F0F0F0D2">>

\* radio.setChannel(76)
Channel == 76

\* radio.setRetries(5, 15)
RetryDelay == 5
RetryCount == 15

\* ------------------------------------------------------ bounds of the model
\* commands (terminated lines) the laptop sends in one run
MaxLines == 2
\* bytes other than Filler (and the terminator) the laptop sends in one run
MaxOdd == 1
\* bytes waiting in the serial receive queue
MaxRx == 1
\* the laptop varies a line (ends it, or sends a byte other than Filler) only
\* within Window bytes of the line's start or of the buffer's last slot
Window == 2
\* telemetry payloads the rover sends in one run
MaxTelemetry == 1
\* payloads waiting in the radio's receive FIFO
MaxFifo == MaxTelemetry + 1
\* bytes of one line beyond the 63 that fit
MaxOver == Window

\* ------------------------------------------------------------------ state
VARIABLES
    pc,            \* the statement the sketch is at
    serialBuffer,  \* char serialBuffer[BUFFER_SIZE]
    bufferIndex,   \* int bufferIndex
    telemetry,     \* TelemetryData telemetry
    mode,          \* the radio: "Standby", "Listening" or "Transmitting"
    config,        \* the radio's configuration, <<>> until setup() sets it
    rx,            \* serial bytes received from the laptop, not yet read
    rxFifo,        \* radio payloads received from the rover, not yet read
    out,           \* the lines printed to the laptop, oldest first
    oob,           \* TRUE once a store fell outside serialBuffer
    line,          \* history: the bytes read since the last terminator
    lines,         \* history: the lines completed by a terminator
    cmds,          \* history: the strings handed to processSerialCommand
    writes,        \* history: the calls of radio.write
    calls,         \* history: the mode switches and writes of the radio
    reads,         \* history: the payloads radio.read has copied
    sent,          \* history: the records the rover sent and the radio took
    oddLeft,       \* environment: non-Filler bytes the laptop may still send
    telLeft,       \* environment: payloads the rover may still send
    lineCap,       \* environment: lines the laptop sends in this run
    flood          \* environment: the laptop never pauses inside a line

vars == <<pc, serialBuffer, bufferIndex, telemetry, mode, config, rx, rxFifo,
          out, oob, line, lines, cmds, writes, calls, reads, sent,
          oddLeft, telLeft, lineCap, flood>>

radioVars == <<mode, config, rxFifo, calls, writes>>
bufferVars == <<serialBuffer, bufferIndex, oob>>
historyVars == <<line, lines, cmds>>
telemetryHist == <<reads, sent>>
envVars == <<oddLeft, telLeft, lineCap, flood>>

Slots == 0 .. (BUFFER_SIZE - 1)

\* The Telemetry Records the rover may send.  temperature and humidity are
\* floats, kept in thousandths; tagId is a 32-bit signed number; timestamp
\* is a 32-bit unsigned number, kept as its two 16-bit halves <<high, low>>
\* because the checker's integers are 32-bit signed.
\* 23.5, 48.2, 7, 100000 and -5.125, 0.004, 40000, 4294967295
Records ==
    { [temperature |-> 23500, humidity |-> 48200, tagId |-> 7, timestamp |-> <<1, 34464>>],
      [temperature |-> -5125, humidity |-> 4, tagId |-> 40000, timestamp |-> <<65535, 65535>>] }

\* the width of int on the Arduino Uno the README names
IntBits == 16

Pow2(n) == IF n = 16 THEN 65536 ELSE 2 ^ n

\* a number stored in an int: its low IntBits bits, two's complement
AsInt(v) ==
    LET m == v % Pow2(IntBits)
    IN  IF m >= Pow2(IntBits) \div 2 THEN m - Pow2(IntBits) ELSE m

\* struct TelemetryData { float; float; int; uint32_t }: a record as the
\* struct holds it, which is the payload on the air
TelemetryData(r) ==
    [temperature |-> r.temperature, humidity |-> r.humidity,
     tagId |-> AsInt(r.tagId), timestamp |-> r.timestamp]

\* the payloads the radio may receive
Payloads == {TelemetryData(r) : r \in Records}

ZeroTelemetry == [temperature |-> 0, humidity |-> 0, tagId |-> 0, timestamp |-> <<0, 0>>]

\* ------------------------------------------------------- pure operations
\* strlen(s): the index of the first zero byte.  A buffer without one makes
\* strlen read past the array; the model then stops at the array's end.
strlen(buf) ==
    IF \E i \in Slots : buf[i] = NUL
    THEN CHOOSE i \in Slots : buf[i] = NUL /\ \A j \in 0 .. (i - 1) : buf[j] # NUL
    ELSE BUFFER_SIZE

\* the characters of the C string at the start of buf
CString(buf) == [i \in 1 .. strlen(buf) |-> buf[i - 1]]

\* the first n bytes at buf, as radio.write(buf, n) reads them
Bytes(buf, n) == [i \in 1 .. n |-> IF (i - 1) \in Slots THEN buf[i - 1] ELSE NUL]

\* serialBuffer[i] = b
Store(buf, i, b) == IF i \in Slots THEN [buf EXCEPT ![i] = b] ELSE buf

\* mutant: the bound one too small, the 63rd byte of a line is dropped
HasRoomShort(i) == i < BUFFER_SIZE - 2

\* mutant: the bound one too large, no slot is kept for the terminator
HasRoomOffByOne(i) == i < BUFFER_SIZE

\* bufferIndex < BUFFER_SIZE - 1
HasRoom(i) == i < BUFFER_SIZE - 1

\* bytes of s after its last terminator (all of s when it has none)
RECURSIVE AfterLastNL(_)
AfterLastNL(s) ==
    IF s = <<>> THEN <<>>
    ELSE IF s[Len(s)] = NL THEN <<>>
    ELSE Append(AfterLastNL(SubSeq(s, 1, Len(s) - 1)), s[Len(s)])

HasNL(s) == \E i \in 1 .. Len(s) : s[i] = NL

CountNL(s) == Cardinality({i \in 1 .. Len(s) : s[i] = NL})

\* lines the laptop has terminated so far
LinesSent == Len(lines) + CountNL(rx)

\* the longest line the history records, and the longest the laptop sends
\* unless it floods
LineMax == (BUFFER_SIZE - 1) + MaxOver

\* the history of the current line with one more byte
Noted(l, b) == IF Len(l) < LineMax THEN Append(l, b) ELSE l

\* bytes the laptop has sent of its current line
HostPos == IF HasNL(rx) THEN Len(AfterLastNL(rx)) ELSE Len(line) + Len(rx)

\* a position where the laptop varies its line
AtEdge(p) == p <= Window \/ p >= (BUFFER_SIZE - 1) - Window

\* ------------------------------------------------------------------- Init
Init ==
    /\ pc = "setup"
    /\ serialBuffer = [i \in Slots |-> NUL]
    /\ bufferIndex = 0
    /\ telemetry = ZeroTelemetry
    /\ mode = "Standby"
    /\ config = <<>>
    /\ rx = <<>>
    /\ rxFifo = <<>>
    /\ out = <<>>
    /\ oob = FALSE
    /\ line = <<>>
    /\ lines = <<>>
    /\ cmds = <<>>
    /\ writes = <<>>
    /\ calls = <<>>
    /\ reads = <<>>
    /\ sent = <<>>
    /\ oddLeft = MaxOdd
    /\ telLeft = MaxTelemetry
    /\ lineCap = MaxLines
    /\ flood = FALSE

\* ------------------------------------------------------------ environment
\* the laptop writes one byte to the serial port
HostSend ==
    /\ Len(rx) < MaxRx
    /\ LinesSent < lineCap
    /\ \E b \in Byte :
        /\ b # NL => (HostPos < LineMax \/ (flood /\ b = Filler))
        /\ b # Filler => AtEdge(HostPos)
        /\ b \in {NUL, Other} => oddLeft > 0
        /\ oddLeft' = IF b \in {NUL, Other} THEN oddLeft - 1 ELSE oddLeft
        /\ rx' = Append(rx, b)
    /\ UNCHANGED <<pc, telemetry, out, telLeft, lineCap, flood>>
    /\ UNCHANGED <<radioVars, bufferVars, historyVars, telemetryHist>>

\* the rover's radio delivers one payload; the radio takes it only while it
\* listens
RoverSend ==
    /\ mode = "Listening"
    /\ telLeft > 0
    /\ Len(rxFifo) < MaxFifo
    /\ \E r \in Records :
        /\ rxFifo' = Append(rxFifo, TelemetryData(r))
        /\ sent' = Append(sent, r)
    /\ telLeft' = telLeft - 1
    /\ UNCHANGED <<pc, telemetry, mode, config, calls, writes, rx, out, reads>>
    /\ UNCHANGED <<oddLeft, lineCap, flood>>
    /\ UNCHANGED <<bufferVars, historyVars>>

\* ---------------------------------------------------------------- setup()
\* mutant: both pipes opened on pipes[0]
RadioConfigSamePipe ==
    [paLevel |-> "RF24_PA_LOW", channel |-> Channel, dataRate |-> "RF24_250KBPS",
     dynamicPayloads |-> TRUE, retries |-> <<RetryDelay, RetryCount>>,
     writingPipe |-> pipes[1], readingPipe |-> pipes[1]]

\* the configuration lines 40-48 write
RadioConfig ==
    [paLevel |-> "RF24_PA_LOW", channel |-> Channel, dataRate |-> "RF24_250KBPS",
     dynamicPayloads |-> TRUE, retries |-> <<RetryDelay, RetryCount>>,
     writingPipe |-> pipes[1], readingPipe |-> pipes[2]]

\* mutant: the failure is printed but the sketch goes on, while (1) left out
setupNoHalt ==
    /\ pc = "setup"
    /\ \E begun \in BOOLEAN :
        IF ~begun
        THEN /\ out' = Append(out, [tag |-> "Radio hardware not responding!", text |-> <<>>])
             /\ pc' = "configure"
        ELSE /\ pc' = "configure"
             /\ out' = out
    /\ UNCHANGED <<telemetry, rx>>
    /\ UNCHANGED <<radioVars, bufferVars, historyVars, telemetryHist, envVars>>

\* Serial.begin(115200); if (!radio.begin()) { println; while (1); }
setup ==
    /\ pc = "setup"
    /\ \E begun \in BOOLEAN :
        IF ~begun
        THEN /\ out' = Append(out, [tag |-> "Radio hardware not responding!", text |-> <<>>])
             /\ pc' = "halt"
        ELSE /\ pc' = "configure"
             /\ out' = out
    /\ UNCHANGED <<telemetry, rx>>
    /\ UNCHANGED <<radioVars, bufferVars, historyVars, telemetryHist, envVars>>

\* setPALevel ... openReadingPipe
setup_configure ==
    /\ pc = "configure"
    /\ config' = RadioConfig
    /\ pc' = "listen"
    /\ UNCHANGED <<mode, rxFifo, calls, writes, telemetry, out, rx>>
    /\ UNCHANGED <<bufferVars, historyVars, telemetryHist, envVars>>

\* radio.startListening(), the last statement of setup()
setup_startListening ==
    /\ pc = "listen"
    /\ mode' = "Listening"
    /\ calls' = Append(calls, "startListening")
    /\ pc' = "loop_serial"
    /\ UNCHANGED <<config, rxFifo, writes, telemetry, out, rx>>
    /\ UNCHANGED <<bufferVars, historyVars, telemetryHist, envVars>>

\* while (1);
halt ==
    /\ pc = "halt"
    /\ UNCHANGED vars

\* ----------------------------------------------------------------- loop()
\* mutant: a terminator met with an empty buffer is skipped
loop_readTerminatorSkipEmpty ==
    /\ pc = "loop_serial"
    /\ rx # <<>>
    /\ Head(rx) = NL
    /\ rx' = Tail(rx)
    /\ serialBuffer' = Store(serialBuffer, bufferIndex, NUL)
    /\ oob' = (oob \/ bufferIndex \notin Slots)
    /\ lines' = Append(lines, line)
    /\ line' = <<>>
    /\ cmds' = Append(cmds, CString(serialBuffer'))
    /\ pc' = IF bufferIndex = 0 THEN "loop_serial" ELSE "stopListening"
    /\ UNCHANGED <<bufferIndex, telemetry, out>>
    /\ UNCHANGED <<radioVars, telemetryHist, envVars>>

\* Serial.available() > 0, inChar == '\n'
loop_readTerminator ==
    /\ pc = "loop_serial"
    /\ rx # <<>>
    /\ Head(rx) = NL
    /\ rx' = Tail(rx)
    /\ serialBuffer' = Store(serialBuffer, bufferIndex, NUL)
    /\ oob' = (oob \/ bufferIndex \notin Slots)
    /\ lines' = Append(lines, line)
    /\ line' = <<>>
    /\ cmds' = Append(cmds, CString(serialBuffer'))
    /\ pc' = "stopListening"
    /\ UNCHANGED <<bufferIndex, telemetry, out>>
    /\ UNCHANGED <<radioVars, telemetryHist, envVars>>

\* mutant: a byte that does not fit overwrites the last stored one
loop_readCharOverwrite ==
    /\ pc = "loop_serial"
    /\ rx # <<>>
    /\ Head(rx) # NL
    /\ rx' = Tail(rx)
    /\ line' = Noted(line, Head(rx))
    /\ IF HasRoom(bufferIndex)
       THEN /\ serialBuffer' = Store(serialBuffer, bufferIndex, Head(rx))
            /\ bufferIndex' = bufferIndex + 1
       ELSE /\ serialBuffer' = Store(serialBuffer, bufferIndex - 1, Head(rx))
            /\ bufferIndex' = bufferIndex
    /\ UNCHANGED <<pc, oob, telemetry, out, lines, cmds>>
    /\ UNCHANGED <<radioVars, telemetryHist, envVars>>

\* mutant: a full buffer is sent off as a command without a terminator
loop_readCharFlush ==
    /\ pc = "loop_serial"
    /\ rx # <<>>
    /\ Head(rx) # NL
    /\ rx' = Tail(rx)
    /\ line' = Noted(line, Head(rx))
    /\ IF HasRoom(bufferIndex)
       THEN /\ serialBuffer' = Store(serialBuffer, bufferIndex, Head(rx))
            /\ oob' = (oob \/ bufferIndex \notin Slots)
            /\ bufferIndex' = bufferIndex + 1
            /\ pc' = pc
       ELSE /\ serialBuffer' = Store(serialBuffer, bufferIndex, NUL)
            /\ pc' = "stopListening"
            /\ UNCHANGED <<bufferIndex, oob>>
    /\ UNCHANGED <<telemetry, out, lines, cmds>>
    /\ UNCHANGED <<radioVars, telemetryHist, envVars>>

\* Serial.available() > 0, any other byte
loop_readChar ==
    /\ pc = "loop_serial"
    /\ rx # <<>>
    /\ Head(rx) # NL
    /\ rx' = Tail(rx)
    /\ line' = Noted(line, Head(rx))
    /\ IF HasRoom(bufferIndex)
       THEN /\ serialBuffer' = Store(serialBuffer, bufferIndex, Head(rx))
            /\ oob' = (oob \/ bufferIndex \notin Slots)
            /\ bufferIndex' = bufferIndex + 1
       ELSE UNCHANGED bufferVars
    /\ UNCHANGED <<pc, telemetry, out, lines, cmds>>
    /\ UNCHANGED <<radioVars, telemetryHist, envVars>>

\* mutant: the loop body ends with the serial part, the radio is not polled
loop_serialDrainedNoPoll ==
    /\ pc = "loop_serial"
    /\ rx = <<>>
    /\ pc' = "loop_serial"
    /\ UNCHANGED <<telemetry, out, rx>>
    /\ UNCHANGED <<radioVars, bufferVars, historyVars, telemetryHist, envVars>>

\* Serial.available() == 0: the while loop ends
loop_serialDrained ==
    /\ pc = "loop_serial"
    /\ rx = <<>>
    /\ pc' = "radio_poll"
    /\ UNCHANGED <<telemetry, out, rx>>
    /\ UNCHANGED <<radioVars, bufferVars, historyVars, telemetryHist, envVars>>

\* history: where the cursor stood when a payload was read: at 0, after the
\* line's first byte, or further on
Seen(i) == IF i < 2 THEN i ELSE 2

\* Serial.print(float): two decimals, rounded half away from zero; the
\* result in hundredths
PrintFloat(m) == IF m >= 0 THEN (m + 5) \div 10 ELSE 0 - ((5 - m) \div 10)

\* the line sendTelemetryToLaptop() prints
sendTelemetryToLaptop(t) ==
    [tag |-> "TELEMETRY,",
     text |-> <<PrintFloat(t.temperature), PrintFloat(t.humidity), t.tagId, t.timestamp>>]

\* mutant: the line is printed from the struct before radio.read fills it
loop_radioAvailableStale ==
    /\ pc = "radio_poll"
    /\ rxFifo # <<>>
    /\ telemetry' = Head(rxFifo)
    /\ rxFifo' = Tail(rxFifo)
    /\ reads' = Append(reads, [payload |-> Head(rxFifo), cursor |-> Seen(bufferIndex)])
    /\ out' = Append(out, sendTelemetryToLaptop(telemetry))
    /\ pc' = "loop_serial"
    /\ UNCHANGED <<mode, config, calls, writes, rx, sent>>
    /\ UNCHANGED <<bufferVars, historyVars, envVars>>

\* mutant: the line buffer is started afresh after a payload
loop_radioAvailableReset ==
    /\ pc = "radio_poll"
    /\ rxFifo # <<>>
    /\ telemetry' = Head(rxFifo)
    /\ rxFifo' = Tail(rxFifo)
    /\ reads' = Append(reads, [payload |-> Head(rxFifo), cursor |-> Seen(bufferIndex)])
    /\ out' = Append(out, sendTelemetryToLaptop(telemetry'))
    /\ bufferIndex' = 0
    /\ pc' = "loop_serial"
    /\ UNCHANGED <<mode, config, calls, writes, rx, sent>>
    /\ UNCHANGED <<serialBuffer, oob, historyVars, envVars>>

\* mutant: while (radio.available()) instead of if
loop_radioAvailableWhile ==
    /\ pc = "radio_poll"
    /\ rxFifo # <<>>
    /\ telemetry' = Head(rxFifo)
    /\ rxFifo' = Tail(rxFifo)
    /\ reads' = Append(reads, [payload |-> Head(rxFifo), cursor |-> Seen(bufferIndex)])
    /\ out' = Append(out, sendTelemetryToLaptop(telemetry'))
    /\ pc' = "radio_poll"
    /\ UNCHANGED <<mode, config, calls, writes, rx, sent>>
    /\ UNCHANGED <<bufferVars, historyVars, envVars>>

\* radio.available(): read the payload and print it
loop_radioAvailable ==
    /\ pc = "radio_poll"
    /\ rxFifo # <<>>
    /\ telemetry' = Head(rxFifo)
    /\ rxFifo' = Tail(rxFifo)
    /\ reads' = Append(reads, [payload |-> Head(rxFifo), cursor |-> Seen(bufferIndex)])
    /\ out' = Append(out, sendTelemetryToLaptop(telemetry'))
    /\ pc' = "loop_serial"
    /\ UNCHANGED <<mode, config, calls, writes, rx, sent>>
    /\ UNCHANGED <<bufferVars, historyVars, envVars>>

\* !radio.available(): the iteration ends
loop_radioEmpty ==
    /\ pc = "radio_poll"
    /\ rxFifo = <<>>
    /\ pc' = "loop_serial"
    /\ UNCHANGED <<telemetry, out, rx>>
    /\ UNCHANGED <<radioVars, bufferVars, historyVars, telemetryHist, envVars>>

\* mutant: the cursor is not reset after a command
loop_noReset ==
    /\ pc = "reset"
    /\ pc' = "loop_serial"
    /\ UNCHANGED <<telemetry, out, rx>>
    /\ UNCHANGED <<radioVars, bufferVars, historyVars, telemetryHist, envVars>>

\* bufferIndex = 0 after processSerialCommand returns
loop_resetBuffer ==
    /\ pc = "reset"
    /\ bufferIndex' = 0
    /\ pc' = "loop_serial"
    /\ UNCHANGED <<serialBuffer, oob, telemetry, out, rx>>
    /\ UNCHANGED <<radioVars, historyVars, telemetryHist, envVars>>

\* ------------------------------------------ processSerialCommand(command)
\* mutant: the write is started without leaving the listening mode
processSerialCommand_noStop ==
    /\ pc = "stopListening"
    /\ pc' = "write"
    /\ UNCHANGED <<telemetry, out, rx>>
    /\ UNCHANGED <<radioVars, bufferVars, historyVars, telemetryHist, envVars>>

\* command points at serialBuffer
\* radio.stopListening()
processSerialCommand_stopListening ==
    /\ pc = "stopListening"
    /\ mode' = "Transmitting"
    /\ calls' = Append(calls, "stopListening")
    /\ pc' = "write"
    /\ UNCHANGED <<config, rxFifo, writes, telemetry, out, rx>>
    /\ UNCHANGED <<bufferVars, historyVars, telemetryHist, envVars>>

\* mutant: a failed write returns at once, before startListening and print
processSerialCommand_writeEarlyReturn ==
    /\ pc = "write"
    /\ \E delivered \in BOOLEAN :
        /\ writes' = Append(writes,
                           [payload |-> Bytes(serialBuffer, strlen(serialBuffer) + 1),
                            len |-> strlen(serialBuffer) + 1,
                            ok |-> delivered,
                            mode |-> mode])
        /\ pc' = IF delivered THEN "startListening" ELSE "reset"
    /\ calls' = Append(calls, "write")
    /\ UNCHANGED <<mode, config, rxFifo, telemetry, out, rx>>
    /\ UNCHANGED <<bufferVars, historyVars, telemetryHist, envVars>>

\* mutant: a failed write is fatal, as a failed radio.begin() is
processSerialCommand_writeFatal ==
    /\ pc = "write"
    /\ \E delivered \in BOOLEAN :
        /\ writes' = Append(writes,
                           [payload |-> Bytes(serialBuffer, strlen(serialBuffer) + 1),
                            len |-> strlen(serialBuffer) + 1,
                            ok |-> delivered,
                            mode |-> mode])
        /\ pc' = IF delivered THEN "startListening" ELSE "halt"
    /\ calls' = Append(calls, "write")
    /\ UNCHANGED <<mode, config, rxFifo, telemetry, out, rx>>
    /\ UNCHANGED <<bufferVars, historyVars, telemetryHist, envVars>>

\* mutant: radio.write(command, strlen(command)), the final zero left out
processSerialCommand_writeNoZero ==
    /\ pc = "write"
    /\ \E delivered \in BOOLEAN :
        writes' = Append(writes,
                         [payload |-> Bytes(serialBuffer, strlen(serialBuffer)),
                          len |-> strlen(serialBuffer),
                          ok |-> delivered,
                          mode |-> mode])
    /\ calls' = Append(calls, "write")
    /\ pc' = "startListening"
    /\ UNCHANGED <<mode, config, rxFifo, telemetry, out, rx>>
    /\ UNCHANGED <<bufferVars, historyVars, telemetryHist, envVars>>

\* radio.write(command, strlen(command) + 1); its result is dropped
processSerialCommand_write ==
    /\ pc = "write"
    /\ \E delivered \in BOOLEAN :
        writes' = Append(writes,
                         [payload |-> Bytes(serialBuffer, strlen(serialBuffer) + 1),
                          len |-> strlen(serialBuffer) + 1,
                          ok |-> delivered,
                          mode |-> mode])
    /\ calls' = Append(calls, "write")
    /\ pc' = "startListening"
    /\ UNCHANGED <<mode, config, rxFifo, telemetry, out, rx>>
    /\ UNCHANGED <<bufferVars, historyVars, telemetryHist, envVars>>

\* mutant: the function returns after startListening, the echo is left out
processSerialCommand_startNoPrint ==
    /\ pc = "startListening"
    /\ mode' = "Listening"
    /\ calls' = Append(calls, "startListening")
    /\ pc' = "reset"
    /\ UNCHANGED <<config, rxFifo, writes, telemetry, out, rx>>
    /\ UNCHANGED <<bufferVars, historyVars, telemetryHist, envVars>>

\* radio.startListening()
processSerialCommand_startListening ==
    /\ pc = "startListening"
    /\ mode' = "Listening"
    /\ calls' = Append(calls, "startListening")
    /\ pc' = "print"
    /\ UNCHANGED <<config, rxFifo, writes, telemetry, out, rx>>
    /\ UNCHANGED <<bufferVars, historyVars, telemetryHist, envVars>>

\* mutant: the echo leaves out the command
AcknowledgeBare(buf) == [tag |-> "CMD_SENT:", text |-> <<>>]

\* the line Serial.print("CMD_SENT:"); Serial.println(command) prints
Acknowledge(buf) == [tag |-> "CMD_SENT:", text |-> CString(buf)]

processSerialCommand_print ==
    /\ pc = "print"
    /\ out' = Append(out, Acknowledge(serialBuffer))
    /\ pc' = "reset"
    /\ UNCHANGED <<telemetry, rx>>
    /\ UNCHANGED <<radioVars, bufferVars, historyVars, telemetryHist, envVars>>

\* ------------------------------------------------------------------- Next
Next ==
    \/ HostSend
    \/ RoverSend
    \/ setup
    \/ setup_configure
    \/ setup_startListening
    \/ halt
    \/ loop_readTerminator
    \/ loop_readChar
    \/ loop_serialDrained
    \/ loop_radioAvailable
    \/ loop_radioEmpty
    \/ loop_resetBuffer
    \/ processSerialCommand_stopListening
    \/ processSerialCommand_write
    \/ processSerialCommand_startListening
    \/ processSerialCommand_print

Spec == Init /\ [][Next]_vars

\* ------------------------------------------- the same sketch, other runs
\* the state after construction, the environment's budget left open
Constructed ==
    /\ pc = "setup"
    /\ serialBuffer = [i \in Slots |-> NUL]
    /\ bufferIndex = 0
    /\ telemetry = ZeroTelemetry
    /\ mode = "Standby"
    /\ config = <<>>
    /\ rx = <<>>
    /\ rxFifo = <<>>
    /\ out = <<>>
    /\ oob = FALSE
    /\ line = <<>>
    /\ lines = <<>>
    /\ cmds = <<>>
    /\ writes = <<>>
    /\ calls = <<>>
    /\ reads = <<>>
    /\ sent = <<>>

\* a run with more telemetry and fewer, plain lines
InitTelemetry ==
    /\ Constructed
    /\ oddLeft = 0
    /\ telLeft = MaxTelemetry + 1
    /\ lineCap = MaxLines - 1
    /\ flood = FALSE

SpecTelemetry == InitTelemetry /\ [][Next]_vars

\* the steps of the sketch, without those of the laptop and the rover
Sketch ==
    \/ setup
    \/ setup_configure
    \/ setup_startListening
    \/ halt
    \/ loop_readTerminator
    \/ loop_readChar
    \/ loop_serialDrained
    \/ loop_radioAvailable
    \/ loop_radioEmpty
    \/ loop_resetBuffer
    \/ processSerialCommand_stopListening
    \/ processSerialCommand_write
    \/ processSerialCommand_startListening
    \/ processSerialCommand_print

\* a run in which the laptop may send without pause; the processor keeps
\* executing the sketch
InitFlood ==
    /\ Constructed
    /\ oddLeft = 0
    /\ telLeft = MaxTelemetry
    /\ lineCap = MaxLines - 1
    /\ flood = TRUE

SpecFlood == InitFlood /\ [][Next]_vars /\ WF_vars(Sketch)

\* ---------------------------------------------------- history, read back
\* the acknowledgment lines among the printed lines, oldest first
IsAck(l) == l.tag \in {"CMD_SENT:", "CMD_FAILED"}
Acks == SelectSeq(out, IsAck)

\* the string radio.write was handed: its payload without the final zero
WrittenString(w) == SubSeq(w.payload, 1, w.len - 1)

\* the sketch is inside processSerialCommand
InRelay == pc \in {"stopListening", "write", "startListening", "print"}

\* the sketch is between two statements of loop()'s body
InLoop == pc \in {"loop_serial", "radio_poll"}

\* processSerialCommand has returned for the i-th command
Returned(i) == i < Len(cmds) \/ ~InRelay

NoNul(s) == \A k \in 1 .. Len(s) : s[k] # NUL

\* the bytes of a line that fit the buffer
Fitting(l) == SubSeq(l, 1, IF Len(l) < BUFFER_SIZE - 1 THEN Len(l) ELSE BUFFER_SIZE - 1)

\* the bytes of s before its first zero byte
UpToNul(s) ==
    IF NoNul(s) THEN s
    ELSE SubSeq(s, 1, (CHOOSE k \in 1 .. Len(s) :
                          s[k] = NUL /\ \A j \in 1 .. (k - 1) : s[j] # NUL) - 1)

\* ------------------------------------------------------------------ C1
\* C1: every command whose radio write failed, once processSerialCommand
\* has returned for it, has the acknowledgment CMD_FAILED and not CMD_SENT.
C1_FailedWriteReported ==
    \A i \in 1 .. Len(writes) :
        (~writes[i].ok /\ Returned(i)) =>
            /\ i <= Len(Acks)
            /\ Acks[i].tag = "CMD_FAILED"

\* ------------------------------------------------------------------ C2
\* C2: every command whose radio write succeeded gets exactly one line
\* CMD_SENT:<command>, <command> being the string radio.write was handed,
\* and no other acknowledgment: the i-th acknowledgment belongs to the i-th
\* write, none is printed before its write and none is missing after the
\* return.
C2_SuccessAcknowledgedOnce ==
    /\ Len(Acks) <= Len(writes)
    /\ Len(writes) <= Len(Acks) + 1
    /\ ~InRelay => Len(Acks) = Len(writes)
    /\ \A i \in 1 .. Len(writes) :
        writes[i].ok =>
            /\ Returned(i) => i <= Len(Acks)
            /\ i <= Len(Acks) =>
                Acks[i] = [tag |-> "CMD_SENT:", text |-> WrittenString(writes[i])]

\* a non-empty command was written with success and acknowledged
C2_Witness ==
    \E i \in 1 .. Len(Acks) :
        /\ writes[i].ok
        /\ Len(Acks[i].text) > 1
        /\ ~InRelay

\* ------------------------------------------------------------------ C3
\* C3 as stated: a line of at most 63 bytes is handed to
\* processSerialCommand byte for byte.
C3_AnyBytesVerbatim ==
    \A i \in 1 .. Len(cmds) :
        Len(lines[i]) <= BUFFER_SIZE - 1 => cmds[i] = lines[i]

\* C3 amended: a line of at most 63 bytes, none of them the zero byte, is
\* handed to processSerialCommand byte for byte, in order, without the
\* terminator; with a zero byte the string ends before the first one.
C3_NonNulBytesVerbatim ==
    \A i \in 1 .. Len(cmds) :
        Len(lines[i]) <= BUFFER_SIZE - 1 =>
            /\ NoNul(lines[i]) => cmds[i] = lines[i]
            /\ cmds[i] = UpToNul(lines[i])

\* a full 63-byte line with two different bytes was delivered after an
\* earlier line had left its bytes in the buffer
C3_Witness ==
    /\ Len(cmds) = 2
    /\ Len(lines[1]) > 0
    /\ Len(lines[2]) = BUFFER_SIZE - 1
    /\ NoNul(lines[2])
    /\ \E k \in 1 .. Len(lines[2]) : lines[2][k] = Other
    /\ cmds[2] = lines[2]

\* ------------------------------------------------------------------ C4
\* C4 as stated: the command of a line of more than 63 bytes is its first
\* 63 bytes.
C4_First63Verbatim ==
    \A i \in 1 .. Len(cmds) :
        Len(lines[i]) > BUFFER_SIZE - 1 => cmds[i] = Fitting(lines[i])

\* a byte was read that found no room
Dropped == Len(line) >= BUFFER_SIZE - 1 /\ Len(line') = Len(line) + 1

\* C4 amended: the command of a line of more than 63 bytes is its first 63
\* bytes when none of them is the zero byte (else the bytes before the first
\* zero byte); a byte after the 63rd changes neither the buffer nor the
\* cursor; after the terminator the cursor is 0 and the next line is
\* assembled from its own bytes only.
C4_Truncation ==
    /\ [](\A i \in 1 .. Len(cmds) :
            Len(lines[i]) > BUFFER_SIZE - 1 =>
                /\ NoNul(Fitting(lines[i])) => cmds[i] = Fitting(lines[i])
                /\ cmds[i] = UpToNul(Fitting(lines[i])))
    /\ []((InLoop /\ line = <<>>) => bufferIndex = 0)
    /\ [](\A i \in 2 .. Len(cmds) :
            Len(lines[i - 1]) > BUFFER_SIZE - 1 => cmds[i] = UpToNul(Fitting(lines[i])))
    /\ [][Dropped => UNCHANGED <<serialBuffer, bufferIndex>>]_vars

\* an over-long line was cut to 63 bytes, the 64th byte differing from the
\* 63rd, and a shorter line was delivered whole after it
C4_Witness ==
    /\ Len(cmds) = 2
    /\ Len(lines[1]) > BUFFER_SIZE - 1
    /\ lines[1][BUFFER_SIZE] # lines[1][BUFFER_SIZE - 1]
    /\ cmds[1] = Fitting(lines[1])
    /\ Len(cmds[1]) = BUFFER_SIZE - 1
    /\ Len(lines[2]) > 0
    /\ cmds[2] = lines[2]

\* ------------------------------------------------------------------ C5
\* C5: the cursor stays within 0..63 and no store, the terminator's
\* included, falls outside the 64 slots of the buffer.
C5_CursorInBounds ==
    /\ bufferIndex \in 0 .. (BUFFER_SIZE - 1)
    /\ ~oob

\* the terminator was stored at slot 63 after bytes had been dropped
C5_Witness ==
    /\ pc = "stopListening"
    /\ bufferIndex = BUFFER_SIZE - 1
    /\ Len(lines[Len(lines)]) > BUFFER_SIZE
    /\ serialBuffer[BUFFER_SIZE - 1] = NUL

\* ------------------------------------------------------------------ C6
\* C6: when processSerialCommand has returned, after a delivered or a failed
\* write, the radio listens; it listens whenever loop() polls the serial
\* port or the radio, so every radio.available() and radio.read() happens
\* while it listens.
C6_ListeningOutsideRelay ==
    /\ pc \in {"reset", "loop_serial", "radio_poll"} => mode = "Listening"
    /\ mode = "Transmitting" => pc \in {"write", "startListening"}

\* the radio is polled with a payload waiting, after a failed write
C6_Witness ==
    /\ pc = "radio_poll"
    /\ rxFifo # <<>>
    /\ writes # <<>>
    /\ ~writes[Len(writes)].ok

\* ------------------------------------------------------------------ C7
\* the radio calls of one command
RelayCycle == <<"stopListening", "write", "startListening">>

\* C7: every radio.write runs in mode Transmitting; after setup's
\* startListening the radio calls are stopListening, write, startListening,
\* repeated, so no write starts inside another command's sequence; each
\* terminated line causes exactly one write.
C7_WriteOnlyTransmitting ==
    /\ \A i \in 1 .. Len(writes) : writes[i].mode = "Transmitting"
    /\ \A k \in 1 .. Len(calls) :
        calls[k] = IF k = 1 THEN "startListening" ELSE RelayCycle[((k - 2) % 3) + 1]
    /\ Len(cmds) = Len(lines)
    /\ Len(writes) = IF pc \in {"stopListening", "write"} THEN Len(cmds) - 1 ELSE Len(cmds)
    /\ Len(calls) = (IF mode = "Standby" THEN 0 ELSE 1) + 3 * Len(cmds)
                    - (CASE pc = "stopListening" -> 3
                         [] pc = "write" -> 2
                         [] pc = "startListening" -> 1
                         [] OTHER -> 0)

\* two commands were written, the sketch is back in the loop
C7_Witness ==
    /\ Len(writes) = 2
    /\ pc = "loop_serial"
    /\ Len(calls) = 7

\* ------------------------------------------------------------------ C8
\* C8: a failed write does not halt the sketch, and the command after it is
\* assembled from its own line, written once in mode Transmitting and
\* acknowledged with its own text, with the cursor back at 0 and the radio
\* listening when the failed command returns.
C8_FailedWriteNotFatal ==
    /\ writes # <<>> => pc # "halt"
    /\ \A i \in 1 .. Len(writes) :
        ~writes[i].ok =>
            /\ (Returned(i) /\ Len(lines) = i /\ line = <<>> /\ InLoop) =>
                    (bufferIndex = 0 /\ mode = "Listening")
            /\ i + 1 <= Len(cmds) => cmds[i + 1] = UpToNul(Fitting(lines[i + 1]))
            /\ i + 1 <= Len(writes) =>
                    /\ WrittenString(writes[i + 1]) = cmds[i + 1]
                    /\ writes[i + 1].mode = "Transmitting"
            /\ (i + 1 <= Len(cmds) /\ Returned(i + 1)) =>
                    /\ i + 1 <= Len(Acks)
                    /\ Acks[i + 1].text = cmds[i + 1]

\* the first write failed and a second, non-empty command was acknowledged
C8_Witness ==
    /\ Len(Acks) = 2
    /\ ~writes[1].ok
    /\ Len(cmds[2]) > 0
    /\ Acks[2].text = lines[2]

\* ------------------------------------------------------------------ C9
\* C9: the i-th acknowledgment belongs to the i-th terminated line and
\* carries the command of that line alone (its bytes that fit, up to a zero
\* byte); no line is acknowledged twice and none is left out once
\* processSerialCommand has returned.
C9_OneAckPerCommandInOrder ==
    /\ Len(Acks) <= Len(lines)
    /\ ~InRelay => Len(Acks) = Len(lines)
    /\ InRelay => Len(Acks) = Len(lines) - 1
    /\ \A i \in 1 .. Len(Acks) :
        Acks[i].text = UpToNul(Fitting(lines[i]))

\* two different commands were acknowledged before any telemetry, the
\* second shorter than the first
C9_Witness ==
    /\ Len(out) = 2
    /\ Len(Acks) = 2
    /\ telLeft = MaxTelemetry
    /\ Len(lines[1]) > Len(lines[2])
    /\ Len(lines[2]) > 0
    /\ Acks[1].text = lines[1]
    /\ Acks[2].text = lines[2]

\* ------------------------------------------------------------------ C10
\* a step taken while processSerialCommand runs: nothing is read from the
\* serial port or the radio, only the acknowledgment is printed, and the
\* sketch does not get back to the loop's polls before it has printed
RelayStep ==
    InRelay =>
        /\ line' = line
        /\ rx' = rx \/ \E b \in Byte : rx' = Append(rx, b)
        /\ rxFifo' = rxFifo \/ \E p \in Payloads : rxFifo' = Append(rxFifo, p)
        /\ telemetry' = telemetry
        /\ out' = out \/ (pc = "print" /\ Len(out') = Len(out) + 1 /\ IsAck(out'[Len(out')]))
        /\ pc' \notin {"loop_serial", "radio_poll", "setup", "halt"}
        /\ pc' = "reset" => (pc = "print" /\ out' # out)

\* C10: between the read of a terminator and the print of its
\* acknowledgment no serial byte is read, the radio is not polled or read and
\* no TELEMETRY line is printed; whenever loop() polls, every terminated line
\* has its acknowledgment.
C10_AckSynchronous ==
    /\ [][RelayStep]_vars
    /\ []((InLoop \/ pc = "reset") => Len(Acks) = Len(lines))

\* the acknowledgment is about to be printed while a serial byte and a
\* telemetry payload wait
C10_Witness ==
    /\ pc = "print"
    /\ rx # <<>>
    /\ rxFifo # <<>>

\* ------------------------------------------------------------------ C11
\* the line setup() prints when radio.begin() fails
InitFailure == [tag |-> "Radio hardware not responding!", text |-> <<>>]

\* C11: when radio.begin() fails the sketch prints the failure once and
\* stays in while (1): the radio is never configured and never listens, no
\* serial byte is read, radio.write is never called and no CMD_SENT,
\* CMD_FAILED or TELEMETRY line is printed.
C11_InitFailureHalts ==
    /\ [](pc = "halt" =>
            /\ out = <<InitFailure>>
            /\ config = <<>>
            /\ mode = "Standby"
            /\ calls = <<>>
            /\ writes = <<>>
            /\ reads = <<>>
            /\ line = <<>>
            /\ lines = <<>>
            /\ bufferIndex = 0)
    /\ [](InitFailure \in {out[i] : i \in 1 .. Len(out)} => pc = "halt")
    /\ [][pc = "halt" => (pc' = "halt" /\ (rx' = rx \/ \E b \in Byte : rx' = Append(rx, b)))]_vars

\* the sketch has halted and a serial byte waits unread
C11_Witness ==
    /\ pc = "halt"
    /\ rx # <<>>
    /\ out = <<InitFailure>>

\* ------------------------------------------------------------------ C12
\* the TELEMETRY lines among the printed lines, oldest first
IsTelemetry(l) == l.tag = "TELEMETRY,"
TelemetryLines == SelectSeq(out, IsTelemetry)

\* the four fields of a payload as the line shows them: the floats with two
\* decimals, the two integers in full
Shown(p) == <<PrintFloat(p.temperature), PrintFloat(p.humidity), p.tagId, p.timestamp>>

\* C12: the i-th TELEMETRY line belongs to the i-th payload the radio
\* received, one line per payload read and none without one, and shows the
\* four fields of that payload, in the order temperature, humidity, tagId,
\* timestamp, none of them taken from an earlier payload.
C12_OneLinePerPayload ==
    /\ Len(TelemetryLines) = Len(reads)
    /\ Len(sent) = Len(reads) + Len(rxFifo)
    /\ \A i \in 1 .. Len(reads) :
        /\ reads[i].payload = TelemetryData(sent[i])
        /\ TelemetryLines[i].text = Shown(reads[i].payload)
    /\ \A i \in 1 .. Len(rxFifo) : rxFifo[i] = TelemetryData(sent[Len(reads) + i])

\* two payloads with different fields were received and printed
C12_Witness ==
    /\ Len(TelemetryLines) = 2
    /\ reads[1].payload # reads[2].payload
    /\ TelemetryLines[1].text # TelemetryLines[2].text
    /\ TelemetryLines[2].text = Shown(reads[2].payload)

\* ------------------------------------------------------------------ C13
\* C13: every TELEMETRY line shows the tagId (32-bit signed) and the
\* timestamp (32-bit unsigned) of the record the rover sent, unchanged.
C13_FullWidthIds ==
    \A i \in 1 .. Len(TelemetryLines) :
        /\ TelemetryLines[i].text[3] = sent[i].tagId
        /\ TelemetryLines[i].text[4] = sent[i].timestamp

\* ------------------------------------------------------------------ C14
\* a payload the radio took has not been read yet
Pending == Len(reads) < Len(sent)
Forwarded == Len(reads) = Len(sent) /\ Len(TelemetryLines) = Len(reads)

\* C14 as stated: a pending payload is polled and forwarded whatever the
\* laptop sends.
C14_PollNeverPostponed == Pending ~> Forwarded

\* C14 amended: a pending payload is polled and forwarded as soon as the
\* serial drain finds no byte available: when the drain ends, the next step
\* of the sketch is the radio poll, and the poll reads and prints a waiting
\* payload; so the payload is forwarded unless the laptop keeps a byte
\* available at every check for ever.
C14_PollWhenSerialPauses ==
    /\ ([]<><<loop_serialDrained>>_vars) => (Pending ~> Forwarded)
    /\ (<>[][~HostSend]_vars) => (Pending ~> Forwarded)
    /\ [][(pc = "loop_serial" /\ rx = <<>> /\ pc' # pc) => pc' = "radio_poll"]_vars
    /\ [][(pc = "radio_poll" /\ rxFifo # <<>> /\ pc' # pc) =>
            (Len(reads') = Len(reads) + 1 /\ Len(TelemetryLines') = Len(TelemetryLines) + 1)]_vars

\* a payload waits while the sketch drops the bytes of an endless line
C14_Witness ==
    /\ flood
    /\ Pending
    /\ pc = "loop_serial"
    /\ rx # <<>>
    /\ Len(line) = LineMax
    /\ bufferIndex = BUFFER_SIZE - 1

\* ------------------------------------------------------------------ C15
\* everything but pc
dataVars == <<serialBuffer, bufferIndex, telemetry, mode, config, rx, rxFifo,
              out, oob, line, lines, cmds, writes, calls, reads, sent,
              oddLeft, telLeft, lineCap, flood>>

\* a step of the sketch at the radio poll
PollStep == pc = "radio_poll" /\ <<pc, reads, out>>' # <<pc, reads, out>>

\* C15: the radio is polled only when the serial drain has found no byte
\* available, a terminator met on the way being dispatched at once; the poll
\* is made once, reads and prints at most one payload and ends the iteration;
\* payloads are read nowhere else; with no serial byte and no payload the
\* iteration changes nothing but the place in the code.
C15_IterationShape ==
    /\ [][(pc' = "radio_poll" /\ pc # "radio_poll") => (pc = "loop_serial" /\ rx = <<>>)]_vars
    /\ [][(pc = "loop_serial" /\ rx # <<>> /\ pc' # pc) =>
            (pc' = "stopListening" /\ Head(rx) = NL)]_vars
    /\ [][PollStep =>
            /\ pc' = "loop_serial"
            /\ Len(reads') = Len(reads) + (IF rxFifo = <<>> THEN 0 ELSE 1)
            /\ Len(out') = Len(out) + (IF rxFifo = <<>> THEN 0 ELSE 1)]_vars
    /\ [][reads' # reads => pc = "radio_poll"]_vars
    /\ [][(pc = "loop_serial" /\ rx = <<>> /\ pc' # pc) => UNCHANGED dataVars]_vars
    /\ [][(pc = "radio_poll" /\ rxFifo = <<>> /\ pc' # pc) => UNCHANGED dataVars]_vars

\* the radio is polled while two payloads wait
C15_Witness ==
    /\ pc = "radio_poll"
    /\ Len(rxFifo) = 2
    /\ lines # <<>>

\* ------------------------------------------------------------------ C16
\* the sketch is about to consume a terminator byte
AtTerminator == pc = "loop_serial" /\ rx # <<>> /\ Head(rx) = NL

\* C16: the relay is entered only by the step that consumes a terminator
\* byte, so the radio writes made are as many as the terminators consumed
\* (one fewer while the relay of the last one has not yet reached its
\* write); a step of the loop that does not consume a terminator makes no
\* radio call, changes no link mode and prints no acknowledgment, and
\* prints nothing at all unless it reads a telemetry payload.
C16_NoPartialCommand ==
    /\ [](Len(writes) = Len(lines) - (IF pc \in {"stopListening", "write"} THEN 1 ELSE 0))
    /\ [][(pc' = "stopListening" /\ pc # "stopListening") =>
            (AtTerminator /\ rx' = Tail(rx) /\ Len(lines') = Len(lines) + 1)]_vars
    /\ [][(writes' # writes \/ Acks' # Acks) => InRelay]_vars
    /\ [][(InLoop /\ ~AtTerminator) =>
            /\ writes' = writes /\ calls' = calls /\ mode' = mode /\ Acks' = Acks
            /\ (out' = out \/ (pc = "radio_poll" /\ rxFifo # <<>>))
            /\ lines' = lines]_vars

\* a line that has filled the buffer and overrun it waits, unterminated,
\* through a radio poll: nothing has been written or printed
C16_Witness ==
    /\ pc = "radio_poll"
    /\ bufferIndex = BUFFER_SIZE - 1
    /\ Len(line) > bufferIndex
    /\ lines = <<>>
    /\ writes = <<>>
    /\ out = <<>>
    /\ calls = <<"startListening">>

\* ------------------------------------------------------------------ C17
\* the radio has been given every setting the sketch is to give it
Configured ==
    /\ config # <<>>
    /\ config.paLevel = "RF24_PA_LOW"
    /\ config.channel = 76
    /\ config.dataRate = "RF24_250KBPS"
    /\ config.dynamicPayloads
    /\ config.retries = <<5, 15>>
    /\ config.writingPipe = "F0F0F0F0E1"
    /\ config.readingPipe = "F0F0F0F0D2"
    /\ config.writingPipe # config.readingPipe

\* C17: the radio is unconfigured until the one step of setup() that
\* configures it, which comes before startListening; from then on the
\* configuration is the sketch's and no step changes it; the loop is entered
\* from setup() with the link mode Listening and the cursor 0; a halted
\* sketch has configured nothing.
C17_ConfiguredOnce ==
    /\ [](pc \in {"setup", "configure", "halt"} => (config = <<>> /\ mode = "Standby"))
    /\ [](pc \notin {"setup", "configure", "halt"} => Configured)
    /\ [][config' # config => (pc = "configure" /\ config = <<>> /\ mode = "Standby")]_vars
    /\ [][mode' # mode => config' = config /\ config # <<>>]_vars
    /\ [][(InLoop' /\ ~InLoop /\ ~InRelay /\ pc # "reset") =>
            (pc = "listen" /\ mode' = "Listening" /\ bufferIndex' = 0 /\ Configured')]_vars

\* a command has been relayed and a payload forwarded, and the radio still
\* has the settings of setup()
C17_Witness ==
    /\ pc = "loop_serial"
    /\ Len(writes) = 1
    /\ Len(reads) = 1
    /\ Len(Acks) = 1
    /\ Len(TelemetryLines) = 1
    /\ Configured

\* ------------------------------------------------------------------ C18
\* C18: the step that reads and forwards a telemetry payload changes neither
\* the line buffer, nor the cursor, nor the link mode, nor any command
\* history; every command handed to the relay is the bytes of its line that
\* fit the buffer, up to a zero byte, whatever was forwarded while the line
\* was arriving.
C18_TelemetryLeavesLineAlone ==
    /\ [][reads' # reads =>
            /\ UNCHANGED <<serialBuffer, bufferIndex, oob, mode, config>>
            /\ UNCHANGED <<line, lines, cmds, writes, calls, rx>>
            /\ Acks' = Acks]_vars
    /\ [](/\ Len(cmds) = Len(lines)
          /\ \A i \in 1 .. Len(cmds) : cmds[i] = UpToNul(Fitting(lines[i])))

\* a payload was forwarded after the first byte of the first line, before
\* anything else was printed; the line went on to fill the buffer and was
\* relayed and acknowledged whole
C18_Witness ==
    /\ Len(reads) = 1
    /\ reads[1].cursor = 1
    /\ Len(out) >= 2
    /\ IsTelemetry(out[1])
    /\ IsAck(out[2])
    /\ Len(lines) >= 1
    /\ Len(lines[1]) = BUFFER_SIZE - 1
    /\ NoNul(lines[1])
    /\ out[2].text = lines[1]
    /\ Len(writes) >= 1
    /\ WrittenString(writes[1]) = lines[1]

\* ------------------------------------------------------------------ C19
\* the radio calls of the i-th relay, setup()'s startListening being first
CallsOf(i) == SubSeq(calls, 3 * i - 1, 3 * i + 1)

\* C19: a terminator consumed with the cursor at 0 enters the relay like any
\* other; the command of an empty line is the empty string, its write hands
\* the radio one byte, the string's final zero, in Transmitting mode, its
\* relay makes the calls stopListening, write, startListening, and its
\* acknowledgment is CMD_SENT: with nothing after it.
C19_EmptyLineRelayed ==
    /\ [][(AtTerminator /\ bufferIndex = 0 /\ rx' = Tail(rx)) =>
            (pc' = "stopListening" /\ line = <<>> /\ lines' = Append(lines, <<>>))]_vars
    /\ [](/\ Len(cmds) = Len(lines)
          /\ \A i \in 1 .. Len(lines) :
                lines[i] = <<>> =>
                  /\ cmds[i] = <<>>
                  /\ Returned(i) =>
                       /\ Len(writes) >= i
                       /\ Len(Acks) >= i
                       /\ Len(calls) >= 3 * i + 1
                       /\ CallsOf(i) = <<"stopListening", "write", "startListening">>
                  /\ Len(writes) >= i =>
                       /\ writes[i].payload = <<NUL>>
                       /\ writes[i].len = 1
                       /\ writes[i].mode = "Transmitting"
                  /\ Len(Acks) >= i =>
                       Acks[i] = [tag |-> "CMD_SENT:", text |-> <<>>])

\* two terminators in a row, each relayed and acknowledged as an empty command
C19_Witness ==
    /\ lines = << <<>>, <<>> >>
    /\ ~InRelay
    /\ Len(writes) = 2
    /\ writes[2].payload = <<NUL>>
    /\ Len(Acks) = 2
    /\ Acks[2].text = <<>>
    /\ calls = <<"startListening", "stopListening", "write", "startListening",
                 "stopListening", "write", "startListening">>

\* ------------------------------------------------------------------ C20
\* C20: the i-th write hands the radio the bytes of the i-th line that fit
\* the buffer, cut before the first zero byte, followed by one zero byte;
\* the length handed over is the length of that prefix plus 1 and lies in
\* 1 .. BUFFER_SIZE; the i-th acknowledgment echoes the same prefix.
C20_CutAtFirstZero ==
    /\ Len(writes) <= Len(lines)
    /\ Len(Acks) <= Len(writes)
    /\ \A i \in 1 .. Len(writes) :
        LET prefix == UpToNul(Fitting(lines[i]))
        IN  /\ NoNul(prefix)
            /\ writes[i].len = Len(prefix) + 1
            /\ writes[i].len \in 1 .. BUFFER_SIZE
            /\ writes[i].payload = Append(prefix, NUL)
            /\ Len(writes[i].payload) = writes[i].len
    /\ \A i \in 1 .. Len(Acks) :
        /\ Acks[i].tag = "CMD_SENT:"
        /\ Acks[i].text = UpToNul(Fitting(lines[i]))

\* a line with a zero byte in second place and more bytes after it: one byte
\* and the final zero were written, one byte was echoed
C20_Witness ==
    /\ Len(Acks) >= 1
    /\ Len(lines[1]) > 2
    /\ lines[1][1] # NUL
    /\ lines[1][2] = NUL
    /\ lines[1][3] # NUL
    /\ writes[1].len = 2
    /\ writes[1].payload = <<lines[1][1], NUL>>
    /\ Acks[1].text = <<lines[1][1]>>

====
